---- MODULE Spec2Model ----
(***************************************************************************)
(* A model of the Megumi storefront server (server.js, the dependency-free *)
(* http server with the MongoDB / in-memory record store).                 *)
(*                                                                         *)
(* Every request handler is an async function: it runs to its next await   *)
(* and other handlers run in between.  A handler is therefore modelled as  *)
(* a process whose steps are the stretches of code between two awaits.     *)
(***************************************************************************)
EXTENDS Integers, Sequences, FiniteSets, TLC

(***************************************************************************)
(* Bounds of the model.                                                    *)
(***************************************************************************)
\* requests that may be in flight at once
MaxInFlight == 2
\* users the stores hold at most
MaxUsers == 2
\* products the stores hold at most
MaxProducts == 2
\* the clock runs over 0..MaxTime
MaxTime == 1
\* random values (salts, UUIDs, ObjectIds) drawn in one process lifetime
MaxIds == 2

Reqs == 1..MaxInFlight

(***************************************************************************)
(* JavaScript values.  Every value is a record of the same shape, so that  *)
(* values of different JavaScript types can be compared (===).             *)
(***************************************************************************)
Undef == [t |-> "undefined", n |-> 0, s |-> ""]
Null == [t |-> "null", n |-> 0, s |-> ""]
NaN == [t |-> "nan", n |-> 0, s |-> ""]
Num(k) == [t |-> "number", n |-> k, s |-> ""]
Str(x) == [t |-> "string", n |-> 0, s |-> x]
\* a Date object holding the time k
Date(k) == [t |-> "date", n |-> k, s |-> ""]
\* the ISO string JSON.stringify writes for a Date
IsoString(k) == [t |-> "isodate", n |-> k, s |-> ""]
\* the string crypto.randomUUID() returns, for the k-th call
Uuid(k) == [t |-> "string", n |-> k, s |-> "uuid"]
\* the 24 hex digit string of the k-th ObjectId the database generates
OidString(k) == [t |-> "string", n |-> k, s |-> "oidhex"]
\* the ObjectId object itself
Oid(k) == [t |-> "objectid", n |-> k, s |-> ""]

\* Truthy testing for undefined and null alone (x == null for !x): the empty
\* string, 0 and NaN pass
TruthyUnlessNullish(v) == v.t \notin {"undefined", "null"}

\* ToBoolean: what `!x`, `x ? a : b` and `x || y` test
Truthy(v) ==
  CASE v.t \in {"undefined", "null", "nan"} -> FALSE
    [] v.t = "number" -> v.n # 0
    [] v.t = "string" -> v.s # ""
    [] OTHER -> TRUE

\* the decimal strings the model's requests use, with the number each spells
NumericStrings == {<<"19", 19>>, <<"0", 0>>}

\* Number(v)
ToNumber(v) ==
  CASE v.t = "number" -> v
    [] v.t = "null" -> Num(0)
    [] v.t = "string" ->
         IF \E p \in NumericStrings : p[1] = v.s /\ v.n = 0
           THEN Num((CHOOSE p \in NumericStrings : p[1] = v.s)[2])
           ELSE IF v.s = "" /\ v.n = 0 THEN Num(0) ELSE NaN
    [] OTHER -> NaN

\* x || y
OrElse(x, y) == IF Truthy(x) THEN x ELSE y

(***************************************************************************)
(* Credential hashing.  PBKDF2 is modelled as a collision-free function    *)
(* of the password, the salt and the iteration count; a Buffer's hex       *)
(* string is a value of its own, decoded by Buffer.from(x, 'hex').         *)
(***************************************************************************)
ITERATIONS == 120000

\* crypto.randomBytes(SALT_LENGTH), crypto.randomUUID() and the database's
\* ObjectIds are fresh values: the k-th draw of the process yields the value k
Fresh(k) == k + 1

\* crypto.pbkdf2(password, salt, iterations, KEY_LENGTH, DIGEST, cb): the key
Pbkdf2(password, salt, iterations) ==
  [pw |-> password, salt |-> salt, it |-> iterations]

\* buf.toString('hex')
ToHex(buf) == [hex |-> buf]

\* Buffer.from(x, 'hex')
FromHex(x) == x.hex

(***************************************************************************)
(* Requests.                                                               *)
(***************************************************************************)
Emails == {Str("a@x.com"), Str("b@x.com")}
Passwords == {Str("pw123"), Str("wrong")}

\* the fields of a product document
ProductFields ==
  {"_id", "name", "category", "price", "description", "imageUrl",
   "createdAt", "updatedAt"}

\* a JSON body: the fields it does not carry are undefined
NoBody ==
  [_id |-> Undef, name |-> Undef, category |-> Undef, price |-> Undef,
   description |-> Undef, imageUrl |-> Undef]

\* a handler that is not running
IdleReq ==
  [kind |-> "none", pc |-> "idle", email |-> Undef, password |-> Undef,
   id |-> Undef, category |-> Undef, body |-> NoBody,
   database |-> "none", ackedBefore |-> FALSE]

\* no response
NoRes ==
  [kind |-> "none", status |-> 0, message |-> "", docs |-> <<>>,
   of |-> IdleReq]

VARIABLES
  mongoDriverAvailable, \* require('mongodb') succeeded
  client,               \* the number of MongoClients constructed so far
  db,                   \* the cached database handle is set
  useMemoryStore,       \* the fallback flag
  memoryStore,          \* [users, products]: the in-memory tables
  mongo,                \* the MongoDB database: its collections and index
  now,                  \* the clock new Date() reads
  ids,                  \* random values drawn so far (salts, UUIDs, ObjectIds)
  req,                  \* each handler's position and local variables
  res,                  \* the response the last step sent (NoRes: it sent none)
  handed,               \* history: the backends connectDb() has returned
  regStarts,            \* history: register requests received, by email (2: more)
  registered,           \* history: <<email, password>> answered 201
  lastCreate,           \* history: the last create answered 201, if no update
                        \* or delete was answered 200 since
  issued,               \* history: the ids create responses have carried
  deleted               \* history: the ids whose delete was answered 200

vars ==
  <<mongoDriverAvailable, client, db, useMemoryStore, memoryStore, mongo, now,
    ids, req, res, handed, regStarts, registered, lastCreate, issued,
    deleted>>

\* what a handler does not touch
procVars == <<mongoDriverAvailable>>
connVars == <<client, db, useMemoryStore>>
storeVars == <<memoryStore, mongo>>
histVars == <<regStarts, registered, lastCreate, issued, deleted>>

NoCreate == [id |-> Undef, body |-> NoBody]

Init ==
  /\ mongoDriverAvailable \in BOOLEAN
  /\ client = 0
  /\ db = FALSE
  /\ useMemoryStore = FALSE
  /\ memoryStore = [users |-> <<>>, products |-> <<>>]
  /\ mongo = [users |-> <<>>, products |-> <<>>, uniqueEmail |-> FALSE]
  /\ now = 0
  /\ ids = 0
  /\ req = [r \in Reqs |-> IdleReq]
  /\ res = NoRes
  /\ handed = {}
  /\ regStarts = [e \in Emails |-> 0]
  /\ registered = {}
  /\ lastCreate = NoCreate
  /\ issued = {}
  /\ deleted = {}

\* sendJson called without `return` where code follows it: the response is
\* sent and the handler goes on
sendJsonWithoutReturn(r, kind, statusCode, message, docs) ==
  /\ res' = [kind |-> kind, status |-> statusCode,
             message |-> message, docs |-> docs, of |-> req[r]]
  /\ UNCHANGED req

\* sendJson(res, statusCode, payload): the handler's response; the handler ends
\* (`of` keeps the handler's local variables beside the response)
sendJson(r, kind, statusCode, message, docs) ==
  /\ res' = [kind |-> kind, status |-> statusCode,
             message |-> message, docs |-> docs, of |-> req[r]]
  /\ req' = [req EXCEPT ![r] = IdleReq]

\* sendJson from a handler that returns before its first await: `request`
\* holds its local variables
sendJsonOf(request, statusCode, message, docs) ==
  /\ res' = [kind |-> request.kind, status |-> statusCode,
             message |-> message, docs |-> docs, of |-> request]
  /\ UNCHANGED req

\* a step that sends no response
NoSend == res' = NoRes

\* new Date(): the clock does not run backwards
ClockRead(t) ==
  /\ t \in now..(IF now < MaxTime THEN now + 1 ELSE now)
  /\ now' = t

\* FirstIndex with "no match" (findIndex's -1) taken for the first element
FirstIndexOrFirst(docs, f, v) ==
  IF \E i \in 1..Len(docs) : docs[i][f] = v
    THEN CHOOSE i \in 1..Len(docs) :
           /\ docs[i][f] = v
           /\ \A j \in 1..(i - 1) : docs[j][f] # v
    ELSE IF docs = <<>> THEN 0 ELSE 1

\* the index of the first element of `docs` whose field `f` is `v`, or 0
FirstIndex(docs, f, v) ==
  IF \E i \in 1..Len(docs) : docs[i][f] = v
    THEN CHOOSE i \in 1..Len(docs) :
           /\ docs[i][f] = v
           /\ \A j \in 1..(i - 1) : docs[j][f] # v
    ELSE 0

\* a request arrives and its handler starts
Accept(r) == req[r].pc = "idle"

(***************************************************************************)
(* connectDb(): each handler awaits it.  Its awaits are client.connect()   *)
(* and the two createIndex calls; the outcome of each is the database's.   *)
(***************************************************************************)
\* connectDb returns `value` to the handler that awaits it
connectDbReturn(r, value) ==
  /\ req' = [req EXCEPT ![r].pc = "resume", ![r].database = value]
  /\ handed' = handed \cup {value}

\* lines 47-51: the two early returns, or a new client starts connecting
connectDbCall(r) ==
  /\ req[r].pc = "connect"
  /\ IF useMemoryStore \/ ~mongoDriverAvailable
       THEN connectDbReturn(r, "null") /\ UNCHANGED client
       ELSE IF db
         THEN connectDbReturn(r, "db") /\ UNCHANGED client
         ELSE /\ client' = client + 1
              /\ req' = [req EXCEPT ![r].pc = "connecting"]
              /\ UNCHANGED handed
  /\ NoSend
  /\ UNCHANGED <<procVars, db, useMemoryStore, storeVars, now, ids, histVars>>

\* line 52: client.connect() resolved; db is cached and the indexes requested
connectDbConnected(r) ==
  /\ req[r].pc = "connecting"
  /\ db' = TRUE
  /\ req' = [req EXCEPT ![r].pc = "indexing"]
  /\ NoSend
  /\ UNCHANGED <<procVars, client, useMemoryStore, storeVars, now, ids,
                 handed, histVars>>

\* lines 58-61: client.connect() rejected
connectDbConnectFailed(r) ==
  /\ req[r].pc = "connecting"
  /\ useMemoryStore' = TRUE
  /\ connectDbReturn(r, "null")
  /\ NoSend
  /\ UNCHANGED <<procVars, client, db, storeVars, now, ids, histVars>>

\* no two documents of the sequence have the same email
UniqueEmails(users) ==
  \A i, j \in 1..Len(users) : users[i].email = users[j].email => i = j

\* line 57: both createIndex calls resolved (a unique index cannot be built
\* over duplicates)
connectDbIndexed(r) ==
  /\ req[r].pc = "indexing"
  /\ UniqueEmails(mongo.users)
  /\ mongo' = [mongo EXCEPT !.uniqueEmail = TRUE]
  /\ connectDbReturn(r, "db")
  /\ NoSend
  /\ UNCHANGED <<procVars, connVars, memoryStore, now, ids, histVars>>

\* lines 58-61: a createIndex call rejected (Promise.all rejects with the first
\* failure: the index on users may have been built all the same)
connectDbIndexFailed(r) ==
  /\ req[r].pc = "indexing"
  /\ useMemoryStore' = TRUE
  /\ \E built \in {FALSE, UniqueEmails(mongo.users)} :
       mongo' = [mongo EXCEPT !.uniqueEmail = @ \/ built]
  /\ connectDbReturn(r, "null")
  /\ NoSend
  /\ UNCHANGED <<procVars, client, db, memoryStore, now, ids, histVars>>

connectDb(r) ==
  \/ connectDbCall(r)
  \/ connectDbConnected(r)
  \/ connectDbConnectFailed(r)
  \/ connectDbIndexed(r)
  \/ connectDbIndexFailed(r)

(***************************************************************************)
(* POST /api/auth/register                                                 *)
(***************************************************************************)
\* lines 100-104: parseBody, the required fields, and the call of connectDb
handleRegisterParse(r) ==
  /\ Accept(r)
  /\ \E email \in Emails \cup {Str("")}, password \in Passwords \cup {Undef} :
       IF ~Truthy(email) \/ ~Truthy(password)
         THEN /\ sendJsonOf([IdleReq EXCEPT !.kind = "register",
                                            !.email = email,
                                            !.password = password],
                            400, "Email and password are required.", <<>>)
              /\ UNCHANGED regStarts
         ELSE /\ req' = [req EXCEPT ![r] =
                   [IdleReq EXCEPT !.kind = "register", !.pc = "connect",
                                   !.email = email, !.password = password,
                                   !.ackedBefore =
                                     \E p \in registered : p[1] = email]]
              /\ regStarts' = [regStarts EXCEPT ![email] =
                                 IF @ < 2 THEN @ + 1 ELSE @]
              /\ NoSend
  /\ UNCHANGED <<procVars, connVars, storeVars, now, ids, handed, registered,
                 lastCreate, issued, deleted>>

\* lines 105-114: the lookups of an existing user
handleRegisterCheck(r) ==
  /\ req[r].kind = "register"
  /\ req[r].pc = "resume"
  /\ IF \/ /\ useMemoryStore
           /\ FirstIndex(memoryStore.users, "email", req[r].email) # 0
        \/ /\ req[r].database = "db"
           /\ FirstIndex(mongo.users, "email", req[r].email) # 0
       THEN sendJson(r, "register", 409, "User already exists.", <<>>)
       ELSE /\ req' = [req EXCEPT ![r].pc = "hash"]
            /\ NoSend
  /\ UNCHANGED <<procVars, connVars, storeVars, now, ids, handed,
                 histVars>>

\* lines 124-130
userDoc(email, password, salt, t) ==
  [email |-> email,
   password |-> ToHex(Pbkdf2(password, salt, ITERATIONS)),
   salt |-> ToHex(salt),
   iterations |-> ITERATIONS,
   createdAt |-> Date(t)]

\* MemPushUser assigning the table instead of pushing to it
MemPushUserAlone(users, doc) == <<doc>>

\* line 135: memoryStore.users.push(userDoc)
MemPushUser(users, doc) == Append(users, doc)

\* lines 116-137: the key is derived, the user stored and the answer sent
handleRegisterInsert(r) ==
  /\ req[r].kind = "register"
  /\ req[r].pc = "hash"
  /\ Len(memoryStore.users) < MaxUsers
  /\ Len(mongo.users) < MaxUsers
  /\ ids < MaxIds
  /\ \E t \in 0..MaxTime :
       LET salt == Fresh(ids)
           doc == userDoc(req[r].email, req[r].password, salt, t)
       IN
       /\ ClockRead(t)
       /\ ids' = ids + 1
       /\ IF req[r].database = "db"
            THEN \* users.insertOne: the unique index rejects a duplicate
                 IF /\ mongo.uniqueEmail
                    /\ FirstIndex(mongo.users, "email", req[r].email) # 0
                   THEN /\ sendJson(r, "register", 500,
                                    "Unable to register user.", <<>>)
                        /\ UNCHANGED <<storeVars, registered>>
                   ELSE /\ mongo' = [mongo EXCEPT !.users = Append(@, doc)]
                        /\ sendJson(r, "register", 201,
                                    "Registration successful.", <<>>)
                        /\ registered' = registered \cup
                             {<<req[r].email, req[r].password>>}
                        /\ UNCHANGED memoryStore
            ELSE /\ memoryStore' =
                      [memoryStore EXCEPT !.users = MemPushUser(@, doc)]
                 /\ sendJson(r, "register", 201,
                             "Registration successful.", <<>>)
                 /\ registered' = registered \cup
                      {<<req[r].email, req[r].password>>}
                 /\ UNCHANGED mongo
  /\ UNCHANGED <<procVars, connVars, handed, regStarts,
                 lastCreate, issued, deleted>>

handleRegister(r) ==
  \/ handleRegisterParse(r)
  \/ handleRegisterCheck(r)
  \/ handleRegisterInsert(r)

(***************************************************************************)
(* POST /api/auth/login                                                    *)
(***************************************************************************)
\* lines 146-150
handleLoginParse(r) ==
  /\ Accept(r)
  /\ \E email \in Emails \cup {Str("")}, password \in Passwords \cup {Undef} :
       IF ~Truthy(email) \/ ~Truthy(password)
         THEN sendJsonOf([IdleReq EXCEPT !.kind = "login", !.email = email,
                                         !.password = password],
                         400, "Email and password are required.", <<>>)
         ELSE /\ req' = [req EXCEPT ![r] =
                   [IdleReq EXCEPT !.kind = "login", !.pc = "connect",
                                   !.email = email, !.password = password]]
              /\ NoSend
  /\ UNCHANGED <<procVars, connVars, storeVars, now, ids, handed, histVars>>

\* lines 156-167: does `password` derive the key stored in `user`
PasswordMatches(user, password) ==
  LET salt == FromHex(user.salt)
      iterations == IF user.iterations # 0 THEN user.iterations ELSE ITERATIONS
      derivedKey == Pbkdf2(password, salt, iterations)
  IN  ToHex(derivedKey) = user.password

\* lines 151-167: the user is looked up in the backend connectDb returned; the
\* answer depends on that copy of the user alone, whatever runs during pbkdf2
handleLoginRun(r) ==
  /\ req[r].kind = "login"
  /\ req[r].pc = "resume"
  /\ LET users == IF req[r].database = "db" THEN mongo.users
                                            ELSE memoryStore.users
         i == FirstIndex(users, "email", req[r].email)
     IN  IF i = 0
           THEN sendJson(r, "login", 401, "Invalid credentials.", <<>>)
           ELSE IF ~PasswordMatches(users[i], req[r].password)
             THEN sendJson(r, "login", 401, "Invalid credentials.", <<>>)
             ELSE sendJson(r, "login", 200, "Login successful.", <<>>)
  /\ UNCHANGED <<procVars, connVars, storeVars, now, ids, handed,
                 histVars>>

handleLogin(r) ==
  \/ handleLoginParse(r)
  \/ handleLoginRun(r)

(***************************************************************************)
(* Product documents.                                                      *)
(***************************************************************************)
\* what JSON.stringify writes for a value: a Date as its ISO string, an
\* ObjectId as its hex string, NaN as null
JsonValue(v) ==
  CASE v.t = "date" -> IsoString(v.n)
    [] v.t = "objectid" -> OidString(v.n)
    [] v.t = "nan" -> Null
    [] OTHER -> v

\* the payload sendJson writes for a document
Json(doc) == [f \in DOMAIN doc |-> JsonValue(doc[f])]

\* new ObjectId(id) accepts the 24 hex digit strings and throws on the others
IsObjectIdString(id) == id.t = "string" /\ id.s = "oidhex"
ObjectId(id) == Oid(id.n)

\* lines 219-226
productDoc(body, t) ==
  [_id |-> Undef,
   name |-> body.name,
   category |-> body.category,
   price |-> IF Truthy(body.price) THEN ToNumber(body.price) ELSE Null,
   description |-> OrElse(body.description, Str("")),
   imageUrl |-> OrElse(body.imageUrl, Str("")),
   createdAt |-> Date(t),
   updatedAt |-> Undef]

\* { ...doc, ...updates, updatedAt: new Date() }, and $set of the same
MergeUpdates(doc, updates, t) ==
  [f \in DOMAIN doc |->
     IF f = "updatedAt" THEN Date(t)
     ELSE IF f \in DOMAIN updates /\ updates[f] # Undef THEN updates[f]
     ELSE doc[f]]

\* `doc` put into `sorted` (newest first) behind the documents that are not
\* older than it
RECURSIVE InsertNewestFirst(_, _)
InsertNewestFirst(sorted, doc) ==
  IF sorted = <<>> THEN <<doc>>
  ELSE IF Head(sorted).createdAt.n - doc.createdAt.n >= 0
    THEN <<Head(sorted)>> \o InsertNewestFirst(Tail(sorted), doc)
    ELSE <<doc>> \o sorted

\* docs.sort((a, b) => b.createdAt - a.createdAt): a stable sort
RECURSIVE SortNewestFirst(_)
SortNewestFirst(docs) ==
  IF docs = <<>> THEN <<>>
  ELSE InsertNewestFirst(SortNewestFirst(SubSeq(docs, 1, Len(docs) - 1)),
                         docs[Len(docs)])

\* MemList without its sort: the matching documents in the order of the table
MemListUnsorted(products, category) ==
  LET Keep(p) == IF Truthy(category) THEN p.category = category ELSE TRUE
  IN  SelectSeq(products, Keep)

\* lines 185-187
MemList(products, category) ==
  LET Keep(p) == IF Truthy(category) THEN p.category = category ELSE TRUE
  IN  SortNewestFirst(SelectSeq(products, Keep))

\* line 181: find(filter).sort({ createdAt: -1 }).toArray(); documents of the
\* same createdAt come in their natural order
MongoList(products, category) ==
  LET Keep(p) == IF Truthy(category) THEN p.category = category ELSE TRUE
  IN  SortNewestFirst(SelectSeq(products, Keep))

\* MemUpdate without `...memoryStore.products[idx]`: the document is replaced
\* by the request's fields instead of merged with them
MemUpdateReplacing(products, idx, updates, t) ==
  [products EXCEPT ![idx] =
     [f \in DOMAIN @ |->
        IF f = "updatedAt" THEN Date(t)
        ELSE IF f \in DOMAIN updates THEN updates[f]
        ELSE Undef]]

\* lines 256-258: the table after the update of the document at idx
MemUpdate(products, idx, updates, t) ==
  [products EXCEPT ![idx] = MergeUpdates(products[idx], updates, t)]

\* lines 248-252: findOneAndUpdate with $set, on the document at idx
MongoUpdate(products, idx, updates, t) ==
  [products EXCEPT ![idx] = MergeUpdates(products[idx], updates, t)]

\* MemDelete with the test of its filter inverted (=== for !==)
MemDeleteInverted(products, id) ==
  LET Keep(p) == p._id = id IN SelectSeq(products, Keep)

\* line 275
MemDelete(products, id) ==
  LET Keep(p) == p._id # id IN SelectSeq(products, Keep)

\* deleteOne: the first match goes
MongoDelete(products, idx) ==
  SubSeq(products, 1, idx - 1) \o SubSeq(products, idx + 1, Len(products))

(***************************************************************************)
(* The product requests.                                                   *)
(***************************************************************************)
Shirt == [NoBody EXCEPT !.name = Str("Shirt"), !.category = Str("boys"),
                        !.price = Str("19")]
Dress == [NoBody EXCEPT !.name = Str("Dress"), !.category = Str("girls"),
                        !.price = Num(0), !.description = Str("silk"),
                        !.imageUrl = Str("http://img/1")]
Cap == [NoBody EXCEPT !.name = Str("Cap"), !.category = Str("boys")]
Nameless == [NoBody EXCEPT !.category = Str("boys")]
Unsorted == [NoBody EXCEPT !.name = Str("Sock"), !.category = Str("")]

CreateBodies == {Shirt, Dress, Cap, Nameless, Unsorted}

\* the ids a client may send: those it was given, and a string of its own
RequestIds == issued \cup {Str("nope")}

UpdateBodies ==
  {NoBody,
   [NoBody EXCEPT !.price = Num(9)],
   [NoBody EXCEPT !.category = Str("girls")]}
  \cup {[NoBody EXCEPT !._id = id] : id \in issued}

\* update bodies a validating catalog would refuse: an empty name, an empty
\* category, a negative price
UncheckedBodies ==
  {[NoBody EXCEPT !.name = Str("")],
   [NoBody EXCEPT !.category = Str("")],
   [NoBody EXCEPT !.price = Num(-1)]}

\* ?category=...: no parameter, an empty one, a category
Categories == {Undef, Str(""), Str("boys"), Str("girls")}

(***************************************************************************)
(* GET /api/products                                                       *)
(***************************************************************************)
\* line 176 and the call of connectDb
handleListProductsParse(r) ==
  /\ Accept(r)
  /\ \E category \in Categories :
       req' = [req EXCEPT ![r] =
         [IdleReq EXCEPT !.kind = "list", !.pc = "connect",
                         !.category = category]]
  /\ NoSend
  /\ UNCHANGED <<procVars, connVars, storeVars, now, ids, handed, histVars>>

\* handleListProductsRun sorting memoryStore.products itself (the sort without
\* the filter that copies the table)
handleListProductsRunSortingInPlace(r) ==
  /\ req[r].kind = "list"
  /\ req[r].pc = "resume"
  /\ LET products == IF req[r].database = "db"
                       THEN MongoList(mongo.products, req[r].category)
                       ELSE MemList(memoryStore.products, req[r].category)
     IN  sendJson(r, "list", 200, "", [i \in 1..Len(products) |->
                                          Json(products[i])])
  /\ memoryStore' = IF req[r].database = "db" THEN memoryStore
                    ELSE [memoryStore EXCEPT
                            !.products = SortNewestFirst(@)]
  /\ UNCHANGED <<procVars, connVars, mongo, now, ids, handed, histVars>>

\* lines 178-188
handleListProductsRun(r) ==
  /\ req[r].kind = "list"
  /\ req[r].pc = "resume"
  /\ LET products == IF req[r].database = "db"
                       THEN MongoList(mongo.products, req[r].category)
                       ELSE MemList(memoryStore.products, req[r].category)
     IN  sendJson(r, "list", 200, "", [i \in 1..Len(products) |->
                                          Json(products[i])])
  /\ UNCHANGED <<procVars, connVars, storeVars, now, ids, handed, histVars>>

handleListProducts(r) ==
  \/ handleListProductsParse(r)
  \/ handleListProductsRun(r)

(***************************************************************************)
(* GET /api/products/:id                                                   *)
(***************************************************************************)
handleGetProductParse(r) ==
  /\ Accept(r)
  /\ \E id \in RequestIds :
       req' = [req EXCEPT ![r] =
         [IdleReq EXCEPT !.kind = "get", !.pc = "connect", !.id = id]]
  /\ NoSend
  /\ UNCHANGED <<procVars, connVars, storeVars, now, ids, handed, histVars>>

\* lines 198-208
handleGetProductRun(r) ==
  /\ req[r].kind = "get"
  /\ req[r].pc = "resume"
  /\ IF req[r].database = "db"
       THEN IF ~IsObjectIdString(req[r].id)
              THEN sendJson(r, "get", 400, "Unable to load product.", <<>>)
              ELSE LET i == FirstIndex(mongo.products, "_id",
                                       ObjectId(req[r].id))
                   IN  IF i = 0
                         THEN sendJson(r, "get", 404, "Product not found.",
                                       <<>>)
                         ELSE sendJson(r, "get", 200, "",
                                       <<Json(mongo.products[i])>>)
       ELSE LET i == FirstIndex(memoryStore.products, "_id", req[r].id)
            IN  IF i = 0
                  THEN sendJson(r, "get", 404, "Product not found.", <<>>)
                  ELSE sendJson(r, "get", 200, "",
                                <<Json(memoryStore.products[i])>>)
  /\ UNCHANGED <<procVars, connVars, storeVars, now, ids, handed, histVars>>

handleGetProduct(r) ==
  \/ handleGetProductParse(r)
  \/ handleGetProductRun(r)

(***************************************************************************)
(* POST /api/products                                                      *)
(***************************************************************************)
\* lines 214-218, for a request body of `bodies`
handleCreateProductParseOf(r, bodies) ==
  /\ Accept(r)
  /\ \E body \in bodies :
       IF ~Truthy(body.name) \/ ~Truthy(body.category)
         THEN sendJsonOf([IdleReq EXCEPT !.kind = "create", !.body = body],
                         400, "Name and category are required.", <<>>)
         ELSE /\ req' = [req EXCEPT ![r] =
                   [IdleReq EXCEPT !.kind = "create", !.pc = "connect",
                                   !.body = body]]
              /\ NoSend
  /\ UNCHANGED <<procVars, connVars, storeVars, now, ids, handed, histVars>>

handleCreateProductParse(r) == handleCreateProductParseOf(r, CreateBodies)

\* lines 219-236
handleCreateProductRun(r) ==
  /\ req[r].kind = "create"
  /\ req[r].pc = "resume"
  /\ Len(memoryStore.products) < MaxProducts
  /\ Len(mongo.products) < MaxProducts
  /\ ids < MaxIds
  /\ ids' = ids + 1
  /\ \E t \in 0..MaxTime :
       /\ ClockRead(t)
       /\ IF req[r].database = "db"
            THEN \* insertOne gives the document its ObjectId; findOne reads it
                 LET product == [productDoc(req[r].body, t)
                                   EXCEPT !._id = Oid(Fresh(ids))]
                 IN  /\ mongo' = [mongo EXCEPT !.products = Append(@, product)]
                     /\ sendJson(r, "create", 201, "", <<Json(product)>>)
                     /\ issued' = issued \cup {Json(product)._id}
                     /\ lastCreate' = [id |-> Json(product)._id,
                                       body |-> req[r].body]
                     /\ UNCHANGED memoryStore
            ELSE LET memoryDoc == [productDoc(req[r].body, t)
                                     EXCEPT !._id = Uuid(Fresh(ids))]
                 IN  /\ memoryStore' = [memoryStore EXCEPT
                                          !.products = Append(@, memoryDoc)]
                     /\ sendJson(r, "create", 201, "", <<Json(memoryDoc)>>)
                     /\ issued' = issued \cup {Json(memoryDoc)._id}
                     /\ lastCreate' = [id |-> Json(memoryDoc)._id,
                                       body |-> req[r].body]
                     /\ UNCHANGED mongo
  /\ UNCHANGED <<procVars, connVars, handed, regStarts, registered, deleted>>

handleCreateProduct(r) ==
  \/ handleCreateProductParse(r)
  \/ handleCreateProductRun(r)

(***************************************************************************)
(* PUT /api/products/:id                                                   *)
(***************************************************************************)
\* line 245 and the call of connectDb, for a request body of `bodies`
handleUpdateProductParseOf(r, bodies) ==
  /\ Accept(r)
  /\ \E id \in RequestIds, updates \in bodies :
       req' = [req EXCEPT ![r] =
         [IdleReq EXCEPT !.kind = "update", !.pc = "connect", !.id = id,
                         !.body = updates]]
  /\ NoSend
  /\ UNCHANGED <<procVars, connVars, storeVars, now, ids, handed, histVars>>

handleUpdateProductParse(r) == handleUpdateProductParseOf(r, UpdateBodies)

\* lines 247-262
handleUpdateProductRun(r) ==
  /\ req[r].kind = "update"
  /\ req[r].pc = "resume"
  /\ IF req[r].database = "db"
       THEN IF ~IsObjectIdString(req[r].id)
              THEN /\ sendJson(r, "update", 400, "Unable to update product.",
                               <<>>)
                   /\ UNCHANGED <<storeVars, now, lastCreate>>
              ELSE LET i == FirstIndex(mongo.products, "_id",
                                       ObjectId(req[r].id))
                   IN  \E t \in 0..MaxTime :
                         /\ ClockRead(t)
                         /\ IF i = 0
                              THEN /\ sendJson(r, "update", 404,
                                               "Product not found.", <<>>)
                                   /\ UNCHANGED <<storeVars, lastCreate>>
                              ELSE IF req[r].body._id # Undef
                                \* $set of _id: the server refuses to change it
                                THEN /\ sendJson(r, "update", 400,
                                          "Unable to update product.", <<>>)
                                     /\ UNCHANGED <<storeVars, lastCreate>>
                                ELSE /\ mongo' = [mongo EXCEPT !.products =
                                          MongoUpdate(@, i, req[r].body, t)]
                                     /\ sendJson(r, "update", 200, "",
                                          <<Json(mongo'.products[i])>>)
                                     /\ lastCreate' = NoCreate
                                     /\ UNCHANGED memoryStore
       ELSE LET idx == FirstIndex(memoryStore.products, "_id", req[r].id)
            IN  IF idx = 0
                  THEN /\ sendJson(r, "update", 404, "Product not found.",
                                   <<>>)
                       /\ UNCHANGED <<storeVars, now, lastCreate>>
                  ELSE \E t \in 0..MaxTime :
                         /\ ClockRead(t)
                         /\ memoryStore' = [memoryStore EXCEPT !.products =
                              MemUpdate(@, idx, req[r].body, t)]
                         /\ sendJson(r, "update", 200, "",
                              <<Json(memoryStore'.products[idx])>>)
                         /\ lastCreate' = NoCreate
                         /\ UNCHANGED mongo
  /\ UNCHANGED <<procVars, connVars, ids, handed, regStarts, registered,
                 issued, deleted>>

handleUpdateProduct(r) ==
  \/ handleUpdateProductParse(r)
  \/ handleUpdateProductRun(r)

(***************************************************************************)
(* DELETE /api/products/:id                                                *)
(***************************************************************************)
handleDeleteProductParse(r) ==
  /\ Accept(r)
  /\ \E id \in RequestIds :
       req' = [req EXCEPT ![r] =
         [IdleReq EXCEPT !.kind = "delete", !.pc = "connect", !.id = id]]
  /\ NoSend
  /\ UNCHANGED <<procVars, connVars, storeVars, now, ids, handed, histVars>>

\* lines 269-280
handleDeleteProductRun(r) ==
  /\ req[r].kind = "delete"
  /\ req[r].pc = "resume"
  /\ IF req[r].database = "db"
       THEN IF ~IsObjectIdString(req[r].id)
              THEN /\ sendJson(r, "delete", 400, "Unable to delete product.",
                               <<>>)
                   /\ UNCHANGED <<storeVars, lastCreate, deleted>>
              ELSE LET i == FirstIndex(mongo.products, "_id",
                                       ObjectId(req[r].id))
                   IN  IF i = 0
                         THEN /\ sendJson(r, "delete", 404,
                                          "Product not found.", <<>>)
                              /\ UNCHANGED <<storeVars, lastCreate, deleted>>
                         ELSE /\ mongo' = [mongo EXCEPT !.products =
                                             MongoDelete(@, i)]
                              /\ sendJson(r, "delete", 200,
                                          "Product removed.", <<>>)
                              /\ lastCreate' = NoCreate
                              /\ deleted' = deleted \cup {req[r].id}
                              /\ UNCHANGED memoryStore
       ELSE LET after == MemDelete(memoryStore.products, req[r].id)
            IN  /\ memoryStore' = [memoryStore EXCEPT !.products = after]
                /\ UNCHANGED mongo
                /\ IF Len(after) = Len(memoryStore.products)
                     THEN /\ sendJson(r, "delete", 404, "Product not found.",
                                      <<>>)
                          /\ UNCHANGED <<lastCreate, deleted>>
                     ELSE /\ sendJson(r, "delete", 200, "Product removed.",
                                      <<>>)
                          /\ lastCreate' = NoCreate
                          /\ deleted' = deleted \cup {req[r].id}
  /\ UNCHANGED <<procVars, connVars, now, ids, handed, regStarts, registered,
                 issued>>

handleDeleteProduct(r) ==
  \/ handleDeleteProductParse(r)
  \/ handleDeleteProductRun(r)

(***************************************************************************)
(* The catch blocks: what each handler answers when an await rejects or a   *)
(* call throws.                                                            *)
(***************************************************************************)
\* lines 138-141, 168-171, 189-192, 206-209, 237-240, 260-263, 278-281
catchStatus(kind) ==
  IF kind \in {"get", "update", "delete"} THEN 400 ELSE 500

catchMessage(kind) ==
  CASE kind = "register" -> "Unable to register user."
    [] kind = "login" -> "Unable to login."
    [] kind = "list" -> "Unable to load products."
    [] kind = "get" -> "Unable to load product."
    [] kind = "create" -> "Unable to create product."
    [] kind = "update" -> "Unable to update product."
    [] kind = "delete" -> "Unable to delete product."

\* the catch block of the handler `request` sends its answer; `reason` says
\* what was caught
catch(r, request, reason) ==
  /\ res' = [kind |-> request.kind, status |-> catchStatus(request.kind),
             message |-> catchMessage(request.kind), docs |-> <<>>,
             of |-> [request EXCEPT !.pc = reason]]
  /\ req' = [req EXCEPT ![r] = IdleReq]

\* parseBody rejects (a body that is not JSON, or too large, or a broken
\* stream): the handlers that read a body
parseBodyRejected(r) ==
  /\ Accept(r)
  /\ \E kind \in {"register", "login", "create", "update"} :
       catch(r, [IdleReq EXCEPT !.kind = kind], "unparsed")
  /\ UNCHANGED <<procVars, connVars, storeVars, now, ids, handed, histVars>>

\* a call on the durable database rejects (findOne, insertOne, find,
\* findOneAndUpdate, deleteOne: the database is unchanged by it)
storeCallRejected(r) ==
  /\ req[r].pc \in {"resume", "hash"}
  /\ req[r].database = "db"
  /\ req[r].kind \in {"get", "update", "delete"}
       => IsObjectIdString(req[r].id)
  /\ catch(r, req[r], "failed")
  /\ UNCHANGED <<procVars, connVars, storeVars, now, ids, handed, histVars>>

\* lines 229-230: insertOne has stored the product and the findOne that reads
\* it back rejects
handleCreateProductReadBackRejected(r) ==
  /\ req[r].kind = "create"
  /\ req[r].pc = "resume"
  /\ req[r].database = "db"
  /\ Len(mongo.products) < MaxProducts
  /\ ids < MaxIds
  /\ ids' = ids + 1
  /\ \E t \in 0..MaxTime :
       /\ ClockRead(t)
       /\ mongo' = [mongo EXCEPT !.products =
            Append(@, [productDoc(req[r].body, t)
                         EXCEPT !._id = Oid(Fresh(ids))])]
  /\ catch(r, req[r], "failed")
  /\ UNCHANGED <<procVars, connVars, memoryStore, handed, histVars>>

(***************************************************************************)
(* The server.                                                             *)
(***************************************************************************)
\* every handler, MaxInFlight requests at a time
Next ==
  \E r \in Reqs :
    \/ connectDb(r)
    \/ handleRegister(r)
    \/ handleLogin(r)
    \/ handleListProducts(r)
    \/ handleGetProduct(r)
    \/ handleCreateProduct(r)
    \/ handleUpdateProduct(r)
    \/ handleDeleteProduct(r)

Spec == Init /\ [][Next]_vars

\* the credential requests, one after the other
NextAuth ==
  \E r \in {1} :
    \/ connectDb(r)
    \/ handleRegister(r)
    \/ handleLogin(r)

SpecAuth == Init /\ [][NextAuth]_vars

\* the product requests, one after the other
NextCatalog ==
  \E r \in {1} :
    \/ connectDb(r)
    \/ handleListProducts(r)
    \/ handleGetProduct(r)
    \/ handleCreateProduct(r)
    \/ handleUpdateProduct(r)
    \/ handleDeleteProduct(r)

SpecCatalog == Init /\ [][NextCatalog]_vars

\* the credential requests among requests that write products, one after
\* the other
NextAccounts ==
  \E r \in {1} :
    \/ connectDb(r)
    \/ handleRegister(r)
    \/ handleLogin(r)
    \/ handleCreateProductParseOf(r, {Shirt, Nameless, Unsorted})
    \/ handleCreateProductRun(r)
    \/ handleUpdateProductParseOf(r, {[NoBody EXCEPT !.price = Num(9)]})
    \/ handleUpdateProductRun(r)
    \/ handleDeleteProduct(r)

SpecAccounts == Init /\ [][NextAccounts]_vars

\* the stores have room for one more record
HasRoom ==
  /\ Len(memoryStore.users) < MaxUsers
  /\ Len(mongo.users) < MaxUsers
  /\ Len(memoryStore.products) < MaxProducts
  /\ Len(mongo.products) < MaxProducts
  /\ ids < MaxIds

\* every route, one request after the other, with the awaits that reject; a
\* request that stores a record is taken while there is room for it
NextService ==
  \E r \in {1} :
    \/ connectDb(r)
    \/ HasRoom /\ handleRegisterParse(r)
    \/ handleRegisterCheck(r)
    \/ handleRegisterInsert(r)
    \/ handleLogin(r)
    \/ handleListProducts(r)
    \/ handleGetProduct(r)
    \/ HasRoom /\ handleCreateProductParseOf(r, {Shirt, Nameless})
    \/ handleCreateProductRun(r)
    \/ handleUpdateProductParseOf(r, {[NoBody EXCEPT !.price = Num(9)]})
    \/ handleUpdateProductRun(r)
    \/ handleDeleteProduct(r)
    \/ parseBodyRejected(r)
    \/ storeCallRejected(r)
    \/ handleCreateProductReadBackRejected(r)

SpecService == Init /\ [][NextService]_vars

\* a handler that is running takes its next step: the event loop resumes it
\* when the promise it awaits settles, and every promise awaited here settles
\* (the driver's calls resolve or reject within their timeouts)
Continue == (\E r \in Reqs : req[r].pc # "idle") /\ NextService

SpecServiceFair == SpecService /\ WF_vars(Continue)

\* the requests that write products, one after the other, with the update
\* bodies nothing in handleUpdateProduct checks
NextCatalogWrites ==
  \E r \in {1} :
    \/ connectDb(r)
    \/ handleCreateProduct(r)
    \/ handleUpdateProductParseOf(r, UncheckedBodies)
    \/ handleUpdateProductRun(r)
    \/ handleDeleteProduct(r)

SpecCatalogWrites == Init /\ [][NextCatalogWrites]_vars

\* requests that only read, MaxInFlight at a time: the races of connectDb
NextConnect ==
  \E r \in Reqs :
    \/ connectDb(r)
    \/ handleListProducts(r)
    \/ handleGetProduct(r)

SpecConnect == Init /\ [][NextConnect]_vars

\* creates and gets, MaxInFlight at a time: writes made while connectDb is
\* still deciding the backend
NextFallback ==
  \E r \in Reqs :
    \/ connectDb(r)
    \/ handleCreateProduct(r)
    \/ handleGetProduct(r)

SpecFallback == Init /\ [][NextFallback]_vars

\* the mongodb driver is not installed: the in-memory store is the backend
\* from the start
InitMemory == Init /\ ~mongoDriverAvailable

\* the requests that write products, MaxInFlight at a time, on the in-memory
\* store
NextMemoryWrites ==
  \E r \in Reqs :
    \/ connectDbCall(r)
    \/ handleCreateProductParseOf(r, {Shirt, Dress})
    \/ handleCreateProductRun(r)
    \/ handleUpdateProductParseOf(r, {[NoBody EXCEPT !.price = Num(9)],
                                      [NoBody EXCEPT !.name = Str("Hat")]})
    \/ handleUpdateProductRun(r)
    \/ handleDeleteProduct(r)

SpecMemoryWrites == InitMemory /\ [][NextMemoryWrites]_vars

(***************************************************************************)
(* The claims.                                                             *)
(***************************************************************************)

\* C1: however many requests call connectDb() while the backend is
\* unresolved, one MongoClient at most is created and connected in the
\* process lifetime.
C1_OneConnectionAttempt == client <= 1

\* C2: all calls of connectDb() in one process lifetime return the same
\* backend: never the database to one handler and the in-memory store (null)
\* to another.
C2_OneBackendForAll == Cardinality(handed) <= 1

\* C3: once a connectDb() call has returned, every call made afterwards
\* returns at once, creates no client, and returns the decision of every call
\* that returned before it.
C3_DecisionIsSticky ==
  [][\A r \in Reqs :
       (req[r].pc = "connect" /\ req'[r].pc # "connect" /\ handed # {})
         => /\ client' = client
            /\ req'[r].pc = "resume"
            /\ \A earlier \in handed : earlier = req'[r].database]_vars

\* the table of users the process is using
ActiveUsers ==
  IF useMemoryStore \/ ~mongoDriverAvailable THEN memoryStore.users
                                             ELSE mongo.users

\* C4: in every reachable state no two user records of the active store have
\* the same email.
C4_UniqueEmail == UniqueEmails(ActiveUsers)

\* C5: of two register requests for one email run one after the other, the
\* first is answered 201 and the second 409: a register request that arrives
\* after one for its email was answered 201 is answered 409, and a register
\* request that is the only one ever received for its email is answered 201.
C5_RegisterTwice ==
  (res.kind = "register" /\ res.status # 400)
    => /\ res.of.ackedBefore => res.status = 409
       /\ regStarts[res.of.email] = 1 => res.status = 201

\* C6: login with non-empty fields is answered 200 exactly when a register
\* request with that email and that password was answered 201; every other
\* login is answered 401 "Invalid credentials.", unknown email and wrong
\* password alike.
C6_LoginIffRegistered ==
  (res.kind = "login" /\ res.status # 400)
    => /\ res.status = 200 <=> <<res.of.email, res.of.password>> \in registered
       /\ res.status # 200
            => res.status = 401 /\ res.message = "Invalid credentials."

\* C7: a get of the id a create has just returned (no update or delete
\* answered 200 in between) is answered 200 with a product whose name,
\* category, price (as a number), description and imageUrl are those the
\* create request supplied, with createdAt present and updatedAt absent.
C7_CreateThenGet ==
  (res.kind = "get" /\ lastCreate.id # Undef /\ res.of.id = lastCreate.id)
    => /\ res.status = 200
       /\ Len(res.docs) = 1
       /\ LET product == res.docs[1]
              body == lastCreate.body
          IN  /\ product._id = lastCreate.id
              /\ product.name = body.name
              /\ product.category = body.category
              /\ body.price # Undef => product.price = ToNumber(body.price)
              /\ body.description # Undef
                   => product.description = body.description
              /\ body.imageUrl # Undef => product.imageUrl = body.imageUrl
              /\ product.createdAt.t = "isodate"
              /\ product.updatedAt = Undef

\* `after` is `before` with one document of the given id changed: the fields
\* the request names hold the request's values, updatedAt holds the time t,
\* and every other field of it and every other document is as it was
OnlyNamedFieldsChanged(before, after, id, updates, t) ==
  /\ Len(after) = Len(before)
  /\ \E i \in 1..Len(before) :
       /\ before[i]._id = id
       /\ \A f \in ProductFields :
            after[i][f] =
              IF f = "updatedAt" THEN Date(t)
              ELSE IF f \in DOMAIN updates /\ updates[f] # Undef
                THEN updates[f]
                ELSE before[i][f]
       /\ \A j \in 1..Len(before) : j # i => after[j] = before[j]

\* C8: an update answered 200 changes, in the one product of that id, the
\* fields the request names and updatedAt (the time of the update) and
\* nothing else: its other fields, the other products and the users stay as
\* they were stored.
C8_UpdateFrame ==
  [][\A r \in Reqs :
       (req[r].kind = "update" /\ req[r].pc = "resume"
          /\ res'.kind = "update" /\ res'.status = 200)
         => IF req[r].database = "db"
              THEN /\ memoryStore' = memoryStore
                   /\ mongo'.users = mongo.users
                   /\ OnlyNamedFieldsChanged(mongo.products, mongo'.products,
                        ObjectId(req[r].id), req[r].body, now')
              ELSE /\ mongo' = mongo
                   /\ memoryStore'.users = memoryStore.users
                   /\ OnlyNamedFieldsChanged(memoryStore.products,
                        memoryStore'.products, req[r].id, req[r].body, now')
    ]_vars

\* an update of the price answered 200 with two products in the table
C8_Witness ==
  /\ res.kind = "update"
  /\ res.status = 200
  /\ res.of.body.price = Num(9)
  /\ Len(memoryStore.products) = 2
  /\ memoryStore.products[1].price # memoryStore.products[2].price

\* C9: once a delete of an id was answered 200, every get of that id is
\* answered 404 and no list carries a product of that id, whatever was
\* created, updated or deleted since; and the delete leaves the products of
\* other ids in the store.
C9_DeletedStaysDeleted ==
  [][/\ (res'.kind = "get" /\ res'.of.id \in deleted') => res'.status = 404
     /\ res'.kind = "list"
          => \A i \in 1..Len(res'.docs) : res'.docs[i]._id \notin deleted'
     /\ (res'.kind = "delete" /\ res'.status = 200)
          => LET Other(p) == JsonValue(p._id) # res'.of.id
             IN  /\ SelectSeq(memoryStore'.products, Other)
                      = SelectSeq(memoryStore.products, Other)
                 /\ SelectSeq(mongo'.products, Other)
                      = SelectSeq(mongo.products, Other)
    ]_vars

\* the table the list request read
ListedFrom(response) ==
  IF response.of.database = "db" THEN mongo.products ELSE memoryStore.products

AllProducts == memoryStore.products \o mongo.products

\* C11: in every reachable state, whatever was created, updated or deleted,
\* every stored product has a non-empty name and a non-empty category.
C11_NameAndCategoryNonEmpty ==
  \A i \in 1..Len(AllProducts) :
    /\ AllProducts[i].name.t = "string"
    /\ AllProducts[i].name.s # ""
    /\ AllProducts[i].category.t = "string"
    /\ AllProducts[i].category.s # ""

\* C15: in every reachable state, whatever was created or updated, the price
\* of every stored product is absent (null) or a non-negative number.
C15_PriceNonNegative ==
  \A i \in 1..Len(AllProducts) :
    \/ AllProducts[i].price = Null
    \/ /\ AllProducts[i].price.t = "number"
       /\ AllProducts[i].price.n >= 0

\* C12: a mutation that reports success is visible to every later read (a
\* get of an id a create has returned, and no delete has removed, is answered
\* 200: no acknowledged record is lost), and a mutation that reports failure
\* leaves the stored users and products as they were.
C12_NoDataLost ==
  [][/\ (res'.kind = "get" /\ res'.of.id \in issued /\ deleted = {})
          => res'.status = 200
     /\ (res'.kind \in {"register", "create", "update", "delete"}
          /\ res'.status \notin {200, 201})
          => /\ memoryStore' = memoryStore
             /\ mongo'.users = mongo.users
             /\ mongo'.products = mongo.products
    ]_vars

\* the status a store that works answers a credential request with, when it
\* holds the records `users`
StatusOnWorkingStore(request, users) ==
  IF request.kind = "register"
    THEN IF \E i \in 1..Len(users) : users[i].email = request.email
           THEN 409 ELSE 201
    ELSE IF \E i \in 1..Len(users) :
              /\ users[i].email = request.email
              /\ users[i].password
                   = ToHex(Pbkdf2(request.password, FromHex(users[i].salt),
                                  users[i].iterations))
           THEN 200 ELSE 401

\* C13: a request that connectDb() hands the in-memory store (the connection
\* attempt failed, or the mongodb driver is not installed) is not answered
\* with an error for it: it gets the status a working store holding the same
\* records would give (201 for a new register, 409 for a registered email).
C13_FallbackNotSurfaced ==
  [][(res'.kind \in {"register", "login"} /\ res'.of.database = "null")
       => res'.status = StatusOnWorkingStore(res'.of, memoryStore.users)
    ]_vars

\* C14: create stores the price as the number parsed from the supplied value
\* whenever the request supplies one (zero included) and as null only when it
\* supplies none; a description or imageUrl that is not supplied is stored
\* as the empty string.  (The product a create has just stored is the last of
\* the table it wrote.)
C14_CreateStoresParsedPrice ==
  (res.kind = "create" /\ res.status = 201)
    => LET table == IF res.of.database = "db" THEN mongo.products
                                              ELSE memoryStore.products
           stored == table[Len(table)]
           body == res.of.body
       IN  /\ stored.price = IF body.price # Undef THEN ToNumber(body.price)
                                                   ELSE Null
           /\ body.description = Undef => stored.description = Str("")
           /\ body.imageUrl = Undef => stored.imageUrl = Str("")

\* what a product request leaves when it runs alone on the table `before` at
\* the time t: the table `after` and the response
SerialOutcome(before, after, response, t) ==
  LET request == response.of
      Others(p) == p._id # request.id
  IN  CASE request.kind = "create" ->
             /\ response.status = 201
             /\ Len(after) = Len(before) + 1
             /\ SubSeq(after, 1, Len(before)) = before
             /\ \A i \in 1..Len(before) :
                  before[i]._id # after[Len(after)]._id
             /\ after[Len(after)].name = request.body.name
             /\ after[Len(after)].category = request.body.category
             /\ after[Len(after)].createdAt = Date(t)
             /\ response.docs = <<Json(after[Len(after)])>>
        [] request.kind = "update" ->
             IF \E i \in 1..Len(before) : before[i]._id = request.id
               THEN /\ response.status = 200
                    /\ OnlyNamedFieldsChanged(before, after, request.id,
                                              request.body, t)
                    /\ \E i \in 1..Len(before) :
                         /\ before[i]._id = request.id
                         /\ response.docs = <<Json(after[i])>>
               ELSE /\ response.status = 404
                    /\ after = before
        [] request.kind = "delete" ->
             /\ after = SelectSeq(before, Others)
             /\ response.status = IF after = before THEN 404 ELSE 200
        [] OTHER -> FALSE

\* C16: on the in-memory store every product request takes effect at once,
\* whatever other requests are in flight: the step that answers a create,
\* update or delete leaves the table and the response the request gives when
\* run alone on the table as it then is, and no other step changes the
\* table.  The run is then the serial execution of the requests in the
\* order of their answers: no lost insert or update, no resurrected delete.
C16_MemoryRequestsSerial ==
  [][IF res'.kind \in {"create", "update", "delete"} /\ res'.status # 400
       THEN SerialOutcome(memoryStore.products, memoryStore'.products, res',
                          now')
       ELSE memoryStore'.products = memoryStore.products
    ]_vars

\* an update is answered 200 while a delete of the same product, past its
\* await of connectDb, is in flight
C16_Witness ==
  /\ res.kind = "update"
  /\ res.status = 200
  /\ \E r \in Reqs :
       /\ req[r].kind = "delete"
       /\ req[r].pc = "resume"
       /\ req[r].id = res.of.id

\* C17: in the in-memory store no two stored products have the same id, and
\* a product keeps the id it was created with for as long as it exists (a
\* step that leaves the number of products as it was leaves each product's
\* id as it was).
C17_MemoryIdsUniqueAndStable ==
  [][/\ \A i, j \in 1..Len(memoryStore'.products) :
          memoryStore'.products[i]._id = memoryStore'.products[j]._id
            => i = j
     /\ Len(memoryStore'.products) = Len(memoryStore.products)
          => \A i \in 1..Len(memoryStore.products) :
               memoryStore'.products[i]._id = memoryStore.products[i]._id
    ]_vars

\* the sequence `old` is the beginning of the sequence `new`
IsPrefix(old, new) ==
  /\ Len(old) <= Len(new)
  /\ SubSeq(new, 1, Len(old)) = old

\* C18: a user record, once stored, is never changed or removed: whatever
\* register, login or product request runs, each table of users keeps the
\* records it holds (email, password hash, salt, iteration count and
\* createdAt) exactly as stored, new ones coming behind them.
C18_UsersOnlyAppended ==
  [][/\ IsPrefix(memoryStore.users, memoryStore'.users)
     /\ IsPrefix(mongo.users, mongo'.users)
    ]_vars

\* a second user has been registered in the in-memory store, behind the
\* first
C18_Witness ==
  /\ res.kind = "register"
  /\ res.status = 201
  /\ Len(memoryStore.users) = 2
  /\ memoryStore.users[1].email # memoryStore.users[2].email

\* a value a request leaves out or leaves empty
IsMissing(v) == v \in {Undef, Null, Str("")}

\* the request, its body parsed, lacks a field its handler requires
MissingField(request) ==
  CASE request.pc = "unparsed" -> FALSE
    [] request.kind \in {"register", "login"} ->
         IsMissing(request.email) \/ IsMissing(request.password)
    [] request.kind = "create" ->
         IsMissing(request.body.name) \/ IsMissing(request.body.category)
    [] OTHER -> FALSE

\* C19: a register or login request without an email or a password, and a
\* create request without a name or a category, is rejected with 400 before
\* any store access: no handler goes on to connectDb() with such a request,
\* every answer to one is 400, and the step that sends a 400 for register,
\* login or create leaves both tables of users and of products and the
\* backend selection (client, db, useMemoryStore) as they were.
C19_MissingFieldRejectedFirst ==
  [][/\ \A r \in Reqs : req'[r].pc # "idle" => ~MissingField(req'[r])
     /\ MissingField(res'.of) => res'.status = 400
     /\ (res'.kind \in {"register", "login", "create"} /\ res'.status = 400)
          => /\ MissingField(res'.of)
             /\ UNCHANGED <<memoryStore, mongo, client, db, useMemoryStore,
                            handed>>
    ]_vars

\* a create without a category is rejected while a user and a product are
\* stored
C19_Witness ==
  /\ res.kind = "create"
  /\ res.status = 400
  /\ res.of.body.category = Str("")
  /\ Len(AllProducts) = 1
  /\ Len(ActiveUsers) = 1

\* the step answers an update or delete of an id no product of the table the
\* request works on has with `status`, and changes no table
NoMatchAnswered(status) ==
  LET id == res'.of.id
      table == IF res'.of.database = "db" THEN mongo.products
                                          ELSE memoryStore.products
  IN  (\A i \in 1..Len(table) : JsonValue(table[i]._id) # id)
        => /\ res'.status = status
           /\ memoryStore' = memoryStore
           /\ mongo' = mongo

\* the step answers a delete with 200 only if it removed a product of the
\* request's id, all products of that id, and no product of another id
DeleteRemovedTheId ==
  (res'.kind = "delete" /\ res'.status = 200)
    => LET id == res'.of.id
           Others(p) == JsonValue(p._id) # id
           before == IF res'.of.database = "db" THEN mongo.products
                                                ELSE memoryStore.products
           after == IF res'.of.database = "db" THEN mongo'.products
                                               ELSE memoryStore'.products
       IN  /\ after = SelectSeq(before, Others)
           /\ Len(after) < Len(before)

C25_OneOutcomeRecorded == ~(db /\ useMemoryStore)

\* on the durable backend the request's id is not one new ObjectId() parses
UnparsableId(request) ==
  /\ request.kind \in {"get", "update", "delete"}
  /\ request.database = "db"
  /\ ~IsObjectIdString(request.id)

\* C21: a call on the durable database that fails after the backend was
\* resolved is answered 500, whatever the operation; 400 is answered only
\* for a missing field, an unparsable id or an unparsable body, and 404 only
\* when the request's table holds no record of the id.
C21_StoreFailureIs500 ==
  [][/\ res'.of.pc = "failed" => res'.status = 500
     /\ res'.status = 400
          => \/ MissingField(res'.of)
             \/ UnparsableId(res'.of)
             \/ res'.of.pc = "unparsed"
     /\ res'.status = 404
          => LET table == IF res'.of.database = "db" THEN mongo.products
                                                     ELSE memoryStore.products
             IN  \A i \in 1..Len(table) :
                   JsonValue(table[i]._id) # res'.of.id
    ]_vars

\* the durable backend's values as the in-memory store holds them: the k-th
\* ObjectId (and its hex string) for the k-th UUID
IdToMemory(v) ==
  IF v.t = "objectid" \/ (v.t = "string" /\ v.s = "oidhex") THEN Uuid(v.n)
                                                              ELSE v

DocToMemory(doc) == [f \in DOMAIN doc |-> IdToMemory(doc[f])]

TableToMemory(docs) == [i \in 1..Len(docs) |-> DocToMemory(docs[i])]

ResponseToMemory(response) ==
  [response EXCEPT !.docs = TableToMemory(@),
                   !.of = [@ EXCEPT !.id = IdToMemory(@),
                                    !.body = DocToMemory(@)]]

\* the response the in-memory store gives to a get or list on `table`
MemoryReads(table, response) ==
  IF response.kind = "get"
    THEN LET i == FirstIndex(table, "_id", response.of.id)
         IN  IF i = 0 THEN response.status = 404
                      ELSE /\ response.status = 200
                           /\ response.docs = <<Json(table[i])>>
    ELSE LET products == MemList(table, response.of.category)
         IN  /\ response.status = 200
             /\ response.docs = [i \in 1..Len(products) |->
                                   Json(products[i])]

\* C22: the two backends are interchangeable: every product request that
\* uses only ids earlier creates returned is answered by the durable
\* database, up to the id values, with the status and the records the
\* in-memory store gives on the same records, and leaves the same records.
C22_BackendsInterchangeable ==
  [][(/\ res'.kind \in {"list", "get", "create", "update", "delete"}
      /\ res'.of.database = "db"
      /\ res'.of.pc = "resume"
      /\ res'.of.id \in issued \cup {Undef})
       => IF res'.kind \in {"list", "get"}
            THEN /\ MemoryReads(TableToMemory(mongo.products),
                                ResponseToMemory(res'))
                 /\ mongo'.products = mongo.products
            ELSE SerialOutcome(TableToMemory(mongo.products),
                               TableToMemory(mongo'.products),
                               ResponseToMemory(res'), now')
    ]_vars

\* the handlers that only read
Reads == {"login", "list", "get"}

\* C23: login, list and get never change stored data: every step of such a
\* handler, its answer included and whether it succeeds or fails, leaves the
\* users and the products of both stores as they were, contents and stored
\* order.
C23_ReadsChangeNothing ==
  [][(\/ res'.kind \in Reads
      \/ \E r \in Reqs :
           /\ req'[r] # req[r]
           /\ req[r].kind \in Reads \/ req'[r].kind \in Reads)
       => /\ memoryStore' = memoryStore
          /\ mongo'.users = mongo.users
          /\ mongo'.products = mongo.products
    ]_vars

\* a list is answered from an in-memory table of two products stored oldest
\* first: the answer has them newest first, the table as they were stored
C23_Witness ==
  /\ res.kind = "list"
  /\ res.status = 200
  /\ res.of.database = "null"
  /\ Len(res.docs) = 2
  /\ Len(memoryStore.products) = 2
  /\ memoryStore.products[1].createdAt.n < memoryStore.products[2].createdAt.n
  /\ res.docs[1] = Json(memoryStore.products[2])

\* C24: every handler sends exactly one response on every path, the paths
\* where parseBody, connectDb or a store call fails included.  A request is
\* answered in the step that takes it (a missing field, a body that does not
\* parse) or its handler starts without an answer, ends only by answering,
\* and each answer ends one handler; and a handler that runs ends.
C24_ExactlyOneResponse ==
  /\ [][/\ \A r \in Reqs :
            /\ (req[r].pc = "idle" /\ req'[r].pc # "idle") => res' = NoRes
            /\ (req[r].pc # "idle" /\ req'[r].pc = "idle")
                 => res' # NoRes /\ res'.kind = req[r].kind
        /\ res' # NoRes
             => \/ /\ req' = req
                   /\ res'.of.pc \in {"idle", "unparsed"}
                \/ \E r \in Reqs :
                     /\ req[r].pc # "idle"
                     /\ req'[r].pc = "idle"
                     /\ \A q \in Reqs \ {r} : req'[q] = req[q]
       ]_vars
  /\ \A r \in Reqs : (req[r].pc # "idle") ~> (req[r].pc = "idle")

\* a register is answered 500 after a database call of it rejected
C24_Witness ==
  /\ res.kind = "register"
  /\ res.status = 500
  /\ res.of.pc = "failed"
  /\ res.of.database = "db"
  /\ \A r \in Reqs : req[r].pc = "idle"

====
